---- MODULE Spec2Model ----
(***************************************************************************)
(* State-synchronization layer of the PokePal admin dashboard:             *)
(*   - the API client error interceptor and the snapshot fetchers          *)
(*     (fetchDevices / fetchUsers),                                        *)
(*   - the SignalR connection manager (connectSignalR, disconnectSignalR,  *)
(*     onDeviceUpdated / onUserUpdated / onUserDeleted, the                *)
(*     accessTokenFactory used on reconnect),                              *)
(*   - the devices store and the users store (load, push-event merge,      *)
(*     cleanup, addUser / modifyUser / removeUser),                        *)
(*   - the toast store (showSuccess, showError, dismissToast, the          *)
(*     auto-dismiss timers, disposal).                                     *)
(* Every async function is cut at its awaits: one action per resumption.   *)
(***************************************************************************)
EXTENDS Integers, Naturals, Sequences, FiniteSets, TLC

\* ------------------------------------------------------------------ bounds
MaxLoads == 2        \* load() calls in one run, both stores together
MaxCleanups == 2     \* cleanup() calls in one run, both stores together
MaxWrites == 2       \* addUser / modifyUser / removeUser calls in one run
MaxReconnects == 3   \* reconnect attempts of one connection
MaxLen == 3          \* longest collection drawn for the merge specification
MaxBatch == 2        \* longest deviceUpdated batch
MaxToasts == 3       \* toasts created in one run
MaxTicks == 6        \* seconds of clock time in one run

\* ------------------------------------------------------------ vocabulary
Stores == {"devices", "users"}

Ids == {"A", "B", "C"}
Versions == {1, 2}
Entity == [id : Ids, v : Versions]
Ent(i, n) == [id |-> i, v |-> n]

NoError == "null"          \* error.value === null
NoController == 0          \* abortController === null
NoConnection == 0          \* connection === null

TopicsOf(s) == IF s = "devices" THEN {"deviceUpdated"}
               ELSE {"userUpdated", "userDeleted"}

\* disposer values held by a store
NullDisposer == [kind |-> "null", cb |-> 0]
NoopDisposer == [kind |-> "noop", cb |-> 0]
OffDisposer(c) == [kind |-> "off", cb |-> c]

VARIABLES
  collection,          \* devices.value / users.value
  loading,             \* loading.value
  error,               \* error.value
  abortController,     \* the tracked AbortController (its number), 0 = null
  signalRInitialized,
  signalRInitializing, \* users store only (constantly FALSE for devices)
  unregister,          \* unregisterDeviceHandler / unregisterUpdateHandler / unregisterDeleteHandler
  loads,               \* the suspended load() invocations
  nLoads,              \* AbortControllers created so far by load(), per store
  nCleanups,           \* cleanup() calls so far, per store
  connection,          \* the module-level handle of signalr.ts, 0 = null
  conns,               \* every HubConnection built so far
  disconnects,         \* disconnectSignalR() calls suspended in connection.stop()
  writes,              \* the suspended addUser / modifyUser / removeUser invocations
  nWrites,             \* write operations called so far
  toasts,              \* toasts.value of the toast store
  nextId,              \* nextId of the toast store
  timeoutMap,          \* the keys of timeoutMap (the value is the timer of that toast)
  disposed,            \* history: the scope of the toast store was disposed
  disposedIds,         \* history: the ids issued before the disposal
  timers,              \* the pending setTimeout() timers of the runtime
  now,                 \* the clock, in milliseconds
  cleaned,             \* history: cleanup() ran and load() was not called since
  last                 \* history: the operation the last step ran

vars == <<collection, loading, error, abortController, signalRInitialized,
          signalRInitializing, unregister, loads, nLoads, nCleanups,
          connection, conns, disconnects, writes, nWrites, toasts, nextId,
          timeoutMap, disposed, disposedIds, timers, now, cleaned, last>>

storeVars == <<collection, loading, error, abortController, signalRInitialized,
               signalRInitializing, unregister>>
managerVars == <<connection, conns, disconnects>>
writeVars == <<writes, nWrites>>
toastVars == <<toasts, nextId, timeoutMap, disposed, disposedIds>>

\* a pending timer: setTimeout() called by kind ("negotiate": the abort timer
\* of connectSignalR() called by load() id of store s; "toast": the
\* auto-dismiss timer of toast id), due at clock time at
Timer(kind, s, id, at) == [kind |-> kind, s |-> s, id |-> id, at |-> at]

\* clearTimeout() of the timers of that kind and owner
ClearTimeout(ts, kind, s, id) ==
  {t \in ts : ~(t.kind = kind /\ t.s = s /\ t.id = id)}

\* the record kept in last: the operation op of store s, the controller
\* number c of the load() it resumed (0 if none), the kind k of the result it
\* handled, the classification de and the message msg of the failure it
\* handled, for a push event its payload (ents or id) and the collection
\* it was applied to, for a negotiation its outcome (ents), for a pull the
\* snapshot (ents) and whether a push event was applied while it was in
\* flight (pushed), the connection a connectSignalR() call returned in the
\* step (conn, 0 for null or no call), and for the end of a write operation
\* the operation (id) and the transport's outcome (ents)
Op(op, s, c, k) == [op |-> op, s |-> s, c |-> c, k |-> k,
                    ents |-> <<>>, id |-> "", before |-> <<>>,
                    de |-> "", msg |-> "", pushed |-> FALSE, conn |-> 0]

\* ------------------------------------------------- results of a pull
Ok(d) == [k |-> "ok", data |-> d, name |-> "", message |-> ""]
Err(n, m) == [k |-> "err", data |-> <<>>, name |-> n, message |-> m]

\* what the transport (axios) hands to the response interceptor
Response(st, d) == [status |-> st, code |-> "", data |-> d]
NoResponse(cd) == [status |-> 0, code |-> cd, data |-> <<>>]
Canceled == NoResponse("ERR_CANCELED")

\* apiClient response error interceptor: the domainError it attaches
\* ("" when it attaches none)
domainError(o) ==
  IF o.status # 0
    THEN IF o.status = 404 THEN "NotFound"
         ELSE IF o.status = 503 THEN "ServiceUnavailable"
         ELSE ""
    ELSE IF o.code = "ECONNABORTED" THEN "Timeout"
         ELSE "NetworkError"

IsSuccess(o) == o.status >= 200 /\ o.status < 300

\* faulty variant of fetchDevices: NotFound is not singled out
fetchDevicesNotFoundThrows(o) ==
  IF IsSuccess(o) THEN Ok(o.data)
  ELSE IF domainError(o) = "ServiceUnavailable"
         THEN Err("Error", "Service is busy. Please try again later.")
  ELSE IF domainError(o) = "Timeout"
         THEN Err("Error", "Request timed out. Please try again.")
  ELSE Err("Error", "Failed to fetch device information.")

fetchDevices(o) ==
  IF IsSuccess(o) THEN Ok(o.data)
  ELSE IF domainError(o) = "NotFound" THEN Ok(<<>>)
  ELSE IF domainError(o) = "ServiceUnavailable"
         THEN Err("Error", "Service is busy. Please try again later.")
  ELSE IF domainError(o) = "Timeout"
         THEN Err("Error", "Request timed out. Please try again.")
  ELSE Err("Error", "Failed to fetch device information.")

\* the messages of fetchUsers are Japanese in the source; they are written
\* here in ASCII, one distinct string per source string
fetchUsers(o) ==
  IF IsSuccess(o) THEN Ok(o.data)
  ELSE IF domainError(o) = "NotFound" THEN Ok(<<>>)
  ELSE IF domainError(o) = "ServiceUnavailable"
         THEN Err("Error", "users: service unavailable, retry later")
  ELSE IF domainError(o) = "Timeout"
         THEN Err("Error", "users: request timed out, retry")
  ELSE Err("Error", "users: failed to fetch user information")

Fetch(s, o) == IF s = "devices" THEN fetchDevices(o) ELSE fetchUsers(o)

\* the write API of the users store.  An `Empty response from server` Error
\* is thrown inside the try block, so the catch block replaces it by the
\* operation's generic message.
createUser(o) ==
  IF IsSuccess(o) /\ o.data # <<>> THEN Ok(o.data)
  ELSE IF IsSuccess(o) THEN Err("Error", "users: failed to register user")
  ELSE IF domainError(o) = "Conflict"
         THEN Err("Error", "users: a user with this id exists already")
  ELSE IF domainError(o) = "ServiceUnavailable"
         THEN Err("Error", "users: service unavailable, retry later")
  ELSE IF domainError(o) = "Timeout"
         THEN Err("Error", "users: request timed out, retry")
  ELSE Err("Error", "users: failed to register user")

updateUser(o) ==
  IF IsSuccess(o) /\ o.data # <<>> THEN Ok(o.data)
  ELSE IF IsSuccess(o) THEN Err("Error", "users: failed to update user")
  ELSE IF domainError(o) = "NotFound"
         THEN Err("Error", "users: user not found")
  ELSE IF domainError(o) = "ServiceUnavailable"
         THEN Err("Error", "users: service unavailable, retry later")
  ELSE IF domainError(o) = "Timeout"
         THEN Err("Error", "users: request timed out, retry")
  ELSE Err("Error", "users: failed to update user")

deleteUser(o) ==
  IF IsSuccess(o) THEN Ok(<<>>)
  ELSE IF domainError(o) = "NotFound"
         THEN Err("Error", "users: user not found")
  ELSE IF domainError(o) = "ServiceUnavailable"
         THEN Err("Error", "users: service unavailable, retry later")
  ELSE IF domainError(o) = "Timeout"
         THEN Err("Error", "users: request timed out, retry")
  ELSE Err("Error", "users: failed to delete user")

WriteKinds == {"addUser", "modifyUser", "removeUser"}

WriteApi(kind, o) ==
  IF kind = "addUser" THEN createUser(o)
  ELSE IF kind = "modifyUser" THEN updateUser(o)
  ELSE deleteUser(o)

\* ------------------------------------------------- push-event merge
\* Array.prototype.findIndex on the id, 1-based; 0 stands for -1
FindIndex(xs, i) ==
  IF \E k \in 1..Len(xs) : xs[k].id = i
    THEN CHOOSE k \in 1..Len(xs) :
           /\ xs[k].id = i
           /\ \A j \in 1..(k - 1) : xs[j].id # i
    ELSE 0

\* faulty variants of UpsertById: push without looking the id up; remove the
\* old entry and push the new one
UpsertAlwaysPush(xs, e) == Append(xs, e)

UpsertMoveToEnd(xs, e) ==
  LET keep(u) == u.id # e.id
  IN Append(SelectSeq(xs, keep), e)

\* body of the userUpdated handler, and of one forEach round of deviceUpdated
UpsertById(xs, e) ==
  LET index == FindIndex(xs, e.id)
  IN IF index # 0 THEN [xs EXCEPT ![index] = e] ELSE Append(xs, e)

RECURSIVE deviceUpdatedHandler(_, _)
deviceUpdatedHandler(xs, batch) ==
  IF batch = <<>> THEN xs
  ELSE deviceUpdatedHandler(UpsertById(xs, Head(batch)), Tail(batch))

userUpdatedHandler(xs, e) == UpsertById(xs, e)

\* faulty variant of RemoveById: the filter drops the entry in front of the
\* matching one as well
RemoveByIdAndPrevious(xs, i) ==
  LET index == FindIndex(xs, i)
  IN IF index = 0 THEN xs
     ELSE SubSeq(xs, 1, index - 2) \o SubSeq(xs, index + 1, Len(xs))

RemoveById(xs, i) ==
  LET keep(u) == u.id # i
  IN SelectSeq(xs, keep)

userDeletedHandler(xs, i) == RemoveById(xs, i)

RECURSIVE ApplyTimes(_, _, _, _)
\* an event is handed to every handler registered for its topic
ApplyTimes(topic, xs, arg, n) ==
  IF n = 0 THEN xs
  ELSE LET ys == IF topic = "deviceUpdated" THEN deviceUpdatedHandler(xs, arg)
                 ELSE IF topic = "userUpdated" THEN userUpdatedHandler(xs, arg)
                 ELSE userDeletedHandler(xs, arg)
       IN ApplyTimes(topic, ys, arg, n - 1)


\* ------------------------------------------------- load() invocations
\* A suspended load() of store s with controller number c.  Actions are cut
\* at the suspension points (network call, transport open); what runs between
\* two of them runs to completion.  pc is the await the call is suspended in:
\*   "pull"         await fetchDevices(...) / fetchUsers(...)
\*   "negotiating"  connectSignalR: await fetch(NEGOTIATE_URL)
\*   "starting"     connectSignalR: await connection.start() on conns[conn]
\* pushed records that a push event was applied to the store's collection
\* while the call was suspended in its pull, since the clock time at which
\* its negotiate fetch was issued.
LoadRec(s, c) == [s |-> s, c |-> c, pc |-> "pull", aborted |-> FALSE,
                  conn |-> NoConnection, pushed |-> FALSE, since |-> 0]

\* faulty variant of AbortSession: the previous controller is not aborted
AbortSessionSkipped(ls, s, c) == ls

\* AbortController.abort() of controller c of store s
AbortSession(ls, s, c) ==
  {IF l.s = s /\ l.c = c THEN [l EXCEPT !.aborted = TRUE] ELSE l : l \in ls}

\* faulty variant of IsAbortError: the catch block does not single out aborts
IsAbortErrorNever(r) == FALSE

IsAbortError(r) == r.k = "err" /\ r.name = "AbortError"

\* faulty variant of ErrorMessage: the catch block shows a fixed text
ErrorMessageUnknown(r) == "Unknown error occurred"

\* the catch block's `err instanceof Error ? err.message : ...`; every
\* failure r of the fetchers and of the write API is an Error
ErrorMessage(r) == r.message

\* faulty variant of FinallyClears: the finally block clears unconditionally
FinallyClearsAlways(s, c) == TRUE

\* the condition of the finally block of loadDevices / loadUsers
FinallyClears(s, c) == abortController[s] = c

\* faulty variant of Finally: loading is cleared whatever session is tracked
FinallyUnguardedLoading(s, c) ==
  /\ loading' = [loading EXCEPT ![s] = FALSE]
  /\ abortController' = IF FinallyClears(s, c)
                          THEN [abortController EXCEPT ![s] = NoController]
                          ELSE abortController

\* the finally block of loadDevices / loadUsers
Finally(s, c) ==
  /\ loading' = IF FinallyClears(s, c)
                  THEN [loading EXCEPT ![s] = FALSE] ELSE loading
  /\ abortController' = IF FinallyClears(s, c)
                          THEN [abortController EXCEPT ![s] = NoController]
                          ELSE abortController

\* the guard in front of initializeSignalR()
NeedsInit(s) ==
  IF s = "devices" THEN ~signalRInitialized[s]
  ELSE ~signalRInitialized[s] /\ ~signalRInitializing[s]

\* first lines of load(): abort the tracked controller, track a new one,
\* issue the request
Load(s) ==
  /\ nLoads["devices"] + nLoads["users"] < MaxLoads
  /\ LET c == nLoads[s] + 1
     IN /\ loads' = (IF abortController[s] # NoController
                       THEN AbortSession(loads, s, abortController[s])
                       ELSE loads) \cup {LoadRec(s, c)}
        /\ abortController' = [abortController EXCEPT ![s] = c]
        /\ nLoads' = [nLoads EXCEPT ![s] = c]
  /\ loading' = [loading EXCEPT ![s] = TRUE]
  /\ error' = [error EXCEPT ![s] = NoError]
  /\ cleaned' = [cleaned EXCEPT ![s] = FALSE]
  /\ last' = Op("load", s, nLoads[s] + 1, "")
  /\ UNCHANGED <<collection, signalRInitialized, signalRInitializing,
                 unregister, nCleanups, managerVars, writeVars, toastVars,
                 timers, now>>

Handler(t, s, c) == [topic |-> t, s |-> s, cb |-> c]

\* calling the disposers a store holds: () => connection?.off(topic, callback)
InvokeDisposers(cs, s) ==
  IF connection = NoConnection THEN cs
  ELSE [cs EXCEPT ![connection].handlers =
          @ \ {Handler(t, s, unregister[s][t].cb) :
                 t \in {u \in TopicsOf(s) : unregister[s][u].kind = "off"}}]

\* onDeviceUpdated / onUserUpdated / onUserDeleted, for every topic of s:
\* connection.on(topic, callback) on the handle as it is now
Register(cs, s, c) ==
  IF connection = NoConnection THEN cs
  ELSE [cs EXCEPT ![connection].handlers =
          @ \cup {Handler(t, s, c) : t \in TopicsOf(s)}]

\* faulty variant of RegisterDisposer: the store gets a disposer that does
\* nothing
RegisterDisposerNoop(c) == NoopDisposer

\* faulty variant of RegisterDisposer: the disposer always calls off()
RegisterDisposerAlwaysOff(c) == OffDisposer(c)

\* the cleanup function onDeviceUpdated / onUserUpdated / onUserDeleted
\* returns for callback c
RegisterDisposer(c) ==
  IF connection = NoConnection THEN NoopDisposer ELSE OffDisposer(c)

\* initializeSignalR() after `await connectSignalR()` has returned, then the
\* rest of load(); cs is the connection table as connectSignalR left it
InitSucceeded(l, cs) ==
  /\ conns' = Register(IF l.s = "users" THEN InvokeDisposers(cs, l.s) ELSE cs,
                       l.s, l.c)
  /\ unregister' = [unregister EXCEPT
                      ![l.s] = [t \in TopicsOf(l.s) |-> RegisterDisposer(l.c)]]
  /\ signalRInitialized' = [signalRInitialized EXCEPT ![l.s] = TRUE]
  /\ signalRInitializing' = [signalRInitializing EXCEPT ![l.s] = FALSE]
  /\ Finally(l.s, l.c)
  /\ loads' = loads \ {l}

\* faulty variant of ChannelFailure: the failure is shown to the user
ChannelFailureSurfaced(e, msg) == msg

\* the catch block of initializeSignalR(): the failure msg is logged and
\* error.value, e, stays as it is
ChannelFailure(e, msg) == e

\* connectSignalR() threw msg and initializeSignalR() returned false: the
\* rest of load()
InitFailed(l, msg) ==
  /\ loads' = loads \ {l}
  /\ error' = [error EXCEPT ![l.s] = ChannelFailure(@, msg)]
  /\ signalRInitializing' = [signalRInitializing EXCEPT ![l.s] = FALSE]
  /\ Finally(l.s, l.c)
  /\ UNCHANGED <<signalRInitialized, unregister>>

\* connectSignalR(): the delay of the timer that aborts the negotiate fetch
NegotiateTimeout == 5000

\* faulty variant of Replace: the snapshot is merged into the array
ReplaceMerging(xs, data) == deviceUpdatedHandler(xs, data)

\* `devices.value = await fetchDevices(...)`: the array after the assignment
Replace(xs, data) == data

\* load() resumes after the pull with result r; de is the classification
\* the API client gave the transport's outcome ("" if it made none)
Resume(l, r, de) ==
  /\ l \in loads /\ l.pc = "pull"
  /\ IF r.k = "ok"
       THEN /\ collection' = [collection EXCEPT ![l.s] = Replace(@, r.data)]
            /\ error' = error
            /\ IF ~NeedsInit(l.s)
                 THEN /\ loads' = loads \ {l}
                      /\ Finally(l.s, l.c)
                      /\ UNCHANGED <<signalRInitialized, signalRInitializing,
                                     unregister, conns>>
                 ELSE IF connection # NoConnection
                 \* connectSignalR(): `if (connection) return connection`
                 THEN InitSucceeded(l, conns)
                 ELSE /\ loads' = (loads \ {l}) \cup
                                  {[l EXCEPT !.pc = "negotiating",
                                             !.since = now]}
                      /\ signalRInitializing' =
                           IF l.s = "users"
                             THEN [signalRInitializing EXCEPT ![l.s] = TRUE]
                             ELSE signalRInitializing
                      /\ UNCHANGED <<loading, abortController,
                                     signalRInitialized, unregister, conns>>
       ELSE /\ error' = IF IsAbortError(r) THEN error
                        ELSE [error EXCEPT ![l.s] = ErrorMessage(r)]
            /\ loads' = loads \ {l}
            /\ Finally(l.s, l.c)
            /\ UNCHANGED <<collection, signalRInitialized, signalRInitializing,
                           unregister, conns>>
  /\ last' = [Op("pull", l.s, l.c, IF r.k = "ok" THEN "ok" ELSE r.name)
                EXCEPT !.de = de, !.msg = r.message,
                       !.before = collection[l.s],
                       !.ents = r.data, !.pushed = l.pushed,
                       !.conn = IF r.k = "ok" /\ NeedsInit(l.s)
                                  THEN connection ELSE NoConnection]
  /\ timers' = IF r.k = "ok" /\ NeedsInit(l.s) /\ connection = NoConnection
                 \* connectSignalR(): setTimeout(() => controller.abort(), 5000)
                 THEN timers \cup {Timer("negotiate", l.s, l.c,
                                         now + NegotiateTimeout)}
                 ELSE timers
  /\ UNCHANGED <<nLoads, nCleanups, connection, disconnects, writeVars,
                 toastVars, now, cleaned>>

\* the pull settles: the transport's outcome o goes through the interceptor
\* and fetchDevices / fetchUsers.  The transport rejects an aborted request
\* as canceled.
PullDone(l, o) ==
  /\ l \in loads
  /\ l.aborted <=> o = Canceled
  /\ Resume(l, Fetch(l.s, o), IF IsSuccess(o) THEN "" ELSE domainError(o))

\* the pull settles, a test double standing in for the fetcher
\* (vi.mock('../api/devices')): its promise settles as the test chose
PullDoneMock(l, r) == Resume(l, r, "")

\* what `fetch(NEGOTIATE_URL)` hands to its caller.  net: "response", or the
\* request was aborted by the 5 s timer ("abort"), or it failed ("error").
\* ok: response.ok.  isObject: the body is a non-null object.  url: a string,
\* or NotAString.  accessToken: 0 for none (absent or the empty string), -1
\* for a value that is not a string, n > 0 for the n-th credential issued.
NotAString == "<not a string>"
HubUrl == "https://hub.example/client"
Answer(ok, isObject, url, accessToken) ==
  [net |-> "response", ok |-> ok, isObject |-> isObject, url |-> url,
   accessToken |-> accessToken]
Rejected(net) ==
  [net |-> net, ok |-> FALSE, isObject |-> FALSE, url |-> NotAString,
   accessToken |-> 0]

\* faulty variant of connectSignalRFailure: the abort of the negotiate fetch
\* is reported like a non-2xx answer
connectSignalRFailureTimeoutAsStatus(a) ==
  IF a.net = "abort" THEN "negotiate failed: 500"
  ELSE IF a.net = "error" THEN "Failed to fetch"
  ELSE IF ~a.ok THEN "negotiate failed: 500"
  ELSE IF ~a.isObject THEN "negotiate response is not an object"
  ELSE IF a.url = NotAString \/ a.url = ""
    THEN "negotiate response missing or invalid url"
  ELSE IF a.accessToken <= 0
    THEN "negotiate response missing or invalid accessToken"
  ELSE ""

\* faulty variant of connectSignalRFailure: the credential is not validated
connectSignalRFailureNoTokenCheck(a) ==
  IF a.net = "abort" THEN "negotiate request timeout (5s)"
  ELSE IF a.net = "error" THEN "Failed to fetch"
  ELSE IF ~a.ok THEN "negotiate failed: 500"
  ELSE IF ~a.isObject THEN "negotiate response is not an object"
  ELSE IF a.url = NotAString \/ a.url = ""
         THEN "negotiate response missing or invalid url"
  ELSE ""

\* connectSignalR up to the construction of the connection: the message of
\* the Error it throws for the negotiate outcome a, "" if it throws none
connectSignalRFailure(a) ==
  IF a.net = "abort" THEN "negotiate request timeout (5s)"
  ELSE IF a.net = "error" THEN "Failed to fetch"
  ELSE IF ~a.ok THEN "negotiate failed: 500"
  ELSE IF ~a.isObject THEN "negotiate response is not an object"
  ELSE IF a.url = NotAString \/ a.url = ""
         THEN "negotiate response missing or invalid url"
  ELSE IF a.accessToken <= 0
         THEN "negotiate response missing or invalid accessToken"
  ELSE ""

NegotiateOutcomes ==
  {Rejected("abort"), Rejected("error"), Answer(FALSE, TRUE, HubUrl, 1),
   Answer(TRUE, FALSE, NotAString, 0), Answer(TRUE, TRUE, NotAString, 1),
   Answer(TRUE, TRUE, "", 1), Answer(TRUE, TRUE, HubUrl, 0),
   Answer(TRUE, TRUE, HubUrl, -1), Answer(TRUE, TRUE, HubUrl, 1)}

\* new HubConnectionBuilder().withUrl(url, {accessTokenFactory}).build():
\* accessToken is the credential the factory's closure holds.  credential is
\* the one the latest reconnect attempt used (0 before the first), lastGood
\* the latest credential the negotiate endpoint delivered (credentials are
\* numbered in the order they are issued), attempts counts the reconnect
\* attempts.
HubConnection(s, accessToken) ==
  [st |-> "starting", owner |-> s, handlers |-> {},
   accessToken |-> accessToken, credential |-> 0, lastGood |-> accessToken,
   attempts |-> 0]

\* connectSignalR() resumes after the negotiate fetch
NegotiateDone(l, n) ==
  /\ l \in loads /\ l.pc = "negotiating"
  /\ IF connectSignalRFailure(n) = ""
       THEN /\ conns' = Append(conns, HubConnection(l.s, n.accessToken))
            /\ connection' = Len(conns) + 1
            /\ loads' = (loads \ {l}) \cup
                        {[l EXCEPT !.pc = "starting", !.conn = Len(conns) + 1]}
            /\ UNCHANGED <<loading, abortController, signalRInitialized,
                           signalRInitializing, unregister>>
            /\ error' = error
       ELSE /\ connection' = NoConnection
            /\ InitFailed(l, connectSignalRFailure(n))
            /\ UNCHANGED conns
  /\ last' = [Op("negotiate", l.s, l.c,
                   IF connectSignalRFailure(n) = "" THEN "ok" ELSE "error")
                EXCEPT !.msg = connectSignalRFailure(n), !.ents = <<n>>]
  \* finally { clearTimeout(timeoutId) }
  /\ timers' = ClearTimeout(timers, "negotiate", l.s, l.c)
  /\ UNCHANGED <<collection, nLoads, nCleanups, disconnects, writeVars,
                 toastVars, now, cleaned>>

\* connectSignalR() resumes after connection.start(); start() rejects when
\* stop() was called on the connection before it completed
StartDone(l, ok) ==
  /\ l \in loads /\ l.pc = "starting"
  /\ IF ok /\ conns[l.conn].st = "starting"
       THEN /\ InitSucceeded(l, [conns EXCEPT ![l.conn].st = "connected"])
            /\ UNCHANGED <<connection, error>>
       ELSE /\ conns' = [conns EXCEPT ![l.conn].st =
                           IF @ = "starting" THEN "stopped" ELSE @]
            /\ connection' = NoConnection
            /\ InitFailed(l, "start failed")
  /\ last' = [Op("start", l.s, l.c,
                   IF ok /\ conns[l.conn].st = "starting" THEN "ok" ELSE "error")
                EXCEPT !.conn = IF ok /\ conns[l.conn].st = "starting"
                                  THEN connection ELSE NoConnection]
  /\ UNCHANGED <<collection, nLoads, nCleanups, disconnects, writeVars,
                 toastVars, timers, now, cleaned>>

\* disconnectSignalR() up to its await: connection.stop() is called
StopCalled(cs) ==
  IF connection = NoConnection THEN cs
  ELSE [cs EXCEPT ![connection].st =
          IF @ \in {"starting", "connected"} THEN "stopping" ELSE @]

\* faulty variant of ResetStoreState: error is not reset
ResetStoreStateKeepsError(s) ==
  /\ collection' = [collection EXCEPT ![s] = <<>>]
  /\ loading' = [loading EXCEPT ![s] = FALSE]
  /\ error' = error

\* the last lines of cleanup()
ResetStoreState(s) ==
  /\ collection' = [collection EXCEPT ![s] = <<>>]
  /\ loading' = [loading EXCEPT ![s] = FALSE]
  /\ error' = [error EXCEPT ![s] = NoError]

Cleanup(s) ==
  /\ nCleanups["devices"] + nCleanups["users"] < MaxCleanups
  /\ nCleanups' = [nCleanups EXCEPT ![s] = @ + 1]
  /\ loads' = IF abortController[s] # NoController
                THEN AbortSession(loads, s, abortController[s]) ELSE loads
  /\ abortController' = [abortController EXCEPT ![s] = NoController]
  /\ conns' = StopCalled(InvokeDisposers(conns, s))
  /\ unregister' = [unregister EXCEPT
                      ![s] = [t \in TopicsOf(s) |-> NullDisposer]]
  /\ disconnects' = IF connection = NoConnection THEN disconnects
                    ELSE disconnects \cup {connection}
  /\ signalRInitialized' = [signalRInitialized EXCEPT ![s] = FALSE]
  /\ signalRInitializing' = [signalRInitializing EXCEPT ![s] = FALSE]
  /\ ResetStoreState(s)
  /\ cleaned' = [cleaned EXCEPT ![s] = TRUE]
  /\ last' = Op("cleanup", s, 0,
                IF last.op = "cleanup" /\ last.s = s THEN "again" ELSE "")
  /\ UNCHANGED <<nLoads, connection, writeVars, toastVars, timers, now>>

\* disconnectSignalR() resumes after `await connection.stop()`; stop() waits
\* for a start() still in progress on that connection
StopDone(c) ==
  /\ c \in disconnects
  /\ ~\E l \in loads : l.pc = "starting" /\ l.conn = c
  /\ conns' = [conns EXCEPT ![c].st = "stopped"]
  /\ connection' = NoConnection
  /\ disconnects' = disconnects \ {c}
  /\ last' = Op("stop", conns[c].owner, 0, "")
  /\ UNCHANGED <<storeVars, loads, nLoads, nCleanups, writeVars, toastVars,
                 timers, now, cleaned>>

\* faulty variant of WriteSuccess: the result is applied to the local array
WriteSuccessOptimistic(kind, xs, r) ==
  IF kind = "removeUser" THEN Tail(xs) ELSE xs \o r.data

\* the success path of addUser / modifyUser / removeUser: the users array it
\* leaves (`Don't add locally - let SignalR event handler do it`)
WriteSuccess(kind, xs, r) == xs

\* faulty variant of Thrown: the failure is swallowed
ThrownSwallowed(r) == "returned"

\* how the write operation ends for its caller (`throw err`)
Thrown(r) == IF r.k = "err" THEN "threw" ELSE "returned"

\* first lines of addUser / modifyUser / removeUser, up to the await
Write(kind) ==
  /\ nWrites < MaxWrites
  /\ nWrites' = nWrites + 1
  /\ writes' = writes \cup {[kind |-> kind, c |-> nWrites + 1]}
  /\ loading' = [loading EXCEPT !["users"] = TRUE]
  /\ error' = [error EXCEPT !["users"] = NoError]
  /\ last' = Op("write", "users", nWrites + 1, kind)
  /\ UNCHANGED <<collection, abortController, signalRInitialized,
                 signalRInitializing, unregister, loads, nLoads, nCleanups,
                 managerVars, toastVars, timers, now, cleaned>>

\* addUser / modifyUser / removeUser resumes after the API call, whose
\* request ended with the transport outcome o
WriteDone(w, o) ==
  /\ w \in writes
  /\ LET r == WriteApi(w.kind, o)
     IN /\ collection' = IF r.k = "ok"
                           THEN [collection EXCEPT !["users"] =
                                   WriteSuccess(w.kind, @, r)]
                           ELSE collection
        /\ error' = IF r.k = "ok" THEN error
                    ELSE [error EXCEPT !["users"] = ErrorMessage(r)]
        /\ last' = [Op("writeDone", "users", w.c, Thrown(r)) EXCEPT
                      !.de = IF IsSuccess(o) THEN "" ELSE domainError(o),
                      !.msg = r.message,
                      !.before = collection["users"],
                      !.ents = <<o>>, !.id = w.kind]
  /\ loading' = [loading EXCEPT !["users"] = FALSE]
  /\ writes' = writes \ {w}
  /\ UNCHANGED <<abortController, signalRInitialized, signalRInitializing,
                 unregister, loads, nLoads, nCleanups, nWrites, managerVars,
                 toastVars, timers, now, cleaned>>

\* faulty variant of accessTokenFactory: the closure's credential is reused
accessTokenFactoryCached(accessToken, a) == accessToken

\* the accessTokenFactory given to withUrl: a is the outcome of its own
\* fetch(NEGOTIATE_URL), accessToken the credential of its closure.  A body
\* that is no object makes `data.accessToken` throw or be undefined.
accessTokenFactory(accessToken, a) ==
  IF a.net # "response" THEN accessToken
  ELSE IF ~a.ok THEN accessToken
  ELSE IF ~a.isObject THEN accessToken
  ELSE IF a.accessToken = 0 THEN accessToken
  ELSE a.accessToken

\* what the negotiate endpoint may answer to a renewal when n is the next
\* credential it issues
RenewalOutcomes(n) ==
  {Rejected("abort"), Rejected("error"), Answer(FALSE, TRUE, HubUrl, n),
   Answer(TRUE, FALSE, NotAString, 0), Answer(TRUE, TRUE, HubUrl, 0),
   Answer(TRUE, TRUE, HubUrl, n)}

\* how the renewal call ended: it delivered a credential ("renewed"), or
\* it failed by timeout, by error, by a non-2xx answer or by an answer
\* without credential
RenewalKind(a) ==
  IF a.net = "abort" THEN "timeout"
  ELSE IF a.net = "error" THEN "error"
  ELSE IF ~a.ok THEN "non2xx"
  ELSE IF ~a.isObject \/ a.accessToken = 0 THEN "noCredential"
  ELSE "renewed"

\* the transport of connection c drops; withAutomaticReconnect() takes over
Drop(c) ==
  /\ conns[c].st = "connected"
  /\ conns[c].attempts < MaxReconnects
  /\ conns' = [conns EXCEPT ![c].st = "reconnecting"]
  /\ last' = Op("drop", conns[c].owner, 0, "")
  /\ UNCHANGED <<storeVars, loads, nLoads, nCleanups, connection, disconnects,
                 writeVars, toastVars, timers, now, cleaned>>

\* one reconnect attempt of connection c: the transport asks the
\* accessTokenFactory for a credential, its renewal call ends with a, and
\* the attempt succeeds (ok) or fails
Reconnect(c, a, ok) ==
  /\ conns[c].st = "reconnecting"
  /\ conns[c].attempts < MaxReconnects
  /\ conns' = [conns EXCEPT
                 ![c].credential = accessTokenFactory(conns[c].accessToken, a),
                 ![c].lastGood = IF RenewalKind(a) = "renewed"
                                   THEN a.accessToken ELSE @,
                 ![c].attempts = @ + 1,
                 ![c].st = IF ok THEN "connected" ELSE "reconnecting"]
  /\ last' = Op("reconnect", conns[c].owner, c, RenewalKind(a))
  /\ UNCHANGED <<storeVars, loads, nLoads, nCleanups, connection, disconnects,
                 writeVars, toastVars, timers, now, cleaned>>

TopicStore(t) == IF t = "deviceUpdated" THEN "devices" ELSE "users"

HandlersOn(c, t) == {h \in conns[c].handlers : h.topic = t}

\* the server pushes an event of topic t on connection c
Push(c, t, arg) ==
  /\ c \in 1..Len(conns)
  /\ conns[c].st = "connected"
  /\ HandlersOn(c, t) # {}
  /\ collection' = [collection EXCEPT ![TopicStore(t)] =
                      ApplyTimes(t, @, arg, Cardinality(HandlersOn(c, t)))]
  /\ last' = [Op("push", TopicStore(t), 0, t) EXCEPT
                !.ents = IF t = "deviceUpdated" THEN arg
                         ELSE IF t = "userUpdated" THEN <<arg>> ELSE <<>>,
                !.id = IF t = "userDeleted" THEN arg ELSE "",
                !.before = collection[TopicStore(t)]]
  /\ loads' = {IF l.s = TopicStore(t) /\ l.pc = "pull"
                 THEN [l EXCEPT !.pushed = TRUE] ELSE l : l \in loads}
  /\ UNCHANGED <<loading, error, abortController, signalRInitialized,
                 signalRInitializing, unregister, nLoads, nCleanups,
                 managerVars, writeVars, toastVars, timers, now, cleaned>>

PushDeviceUpdated(c, batch) == Push(c, "deviceUpdated", batch)
PushUserUpdated(c, e) == Push(c, "userUpdated", e)
PushUserDeleted(c, i) == Push(c, "userDeleted", i)

\* ------------------------------------------------- specifications
\* the toast store after its setup function has run
InitToastStore ==
  /\ toasts = <<>>
  /\ nextId = 0
  /\ timeoutMap = {}
  /\ disposed = FALSE
  /\ disposedIds = {}

Init ==
  /\ collection = [s \in Stores |-> <<>>]
  /\ loading = [s \in Stores |-> FALSE]
  /\ error = [s \in Stores |-> NoError]
  /\ abortController = [s \in Stores |-> NoController]
  /\ signalRInitialized = [s \in Stores |-> FALSE]
  /\ signalRInitializing = [s \in Stores |-> FALSE]
  /\ unregister = [s \in Stores |-> [t \in TopicsOf(s) |-> NullDisposer]]
  /\ loads = {}
  /\ nLoads = [s \in Stores |-> 0]
  /\ nCleanups = [s \in Stores |-> 0]
  /\ connection = NoConnection
  /\ conns = <<>>
  /\ disconnects = {}
  /\ writes = {}
  /\ nWrites = 0
  /\ cleaned = [s \in Stores |-> FALSE]
  /\ InitToastStore
  /\ timers = {}
  /\ now = 0
  /\ last = Op("init", "", 0, "")

\* inputs of the composed system
Snapshots == {<<Ent("A", 1)>>, <<Ent("A", 1), Ent("B", 1)>>}
PullOutcomes ==
  {Response(200, d) : d \in Snapshots} \cup
  {Response(404, <<>>), Response(503, <<>>), NoResponse("ECONNABORTED"),
   NoResponse("ERR_NETWORK"), Canceled}
PushedEntities == {Ent("A", 2)}
PushedBatches == {<<Ent("B", 1), Ent("A", 2)>>}
PushedDeletes == {"A"}

Manager ==
  \/ \E l \in loads : \E n \in NegotiateOutcomes : NegotiateDone(l, n)
  \/ \E l \in loads : \E ok \in BOOLEAN : StartDone(l, ok)
  \/ \E c \in disconnects : StopDone(c)

Pushes ==
  \/ \E c \in 1..Len(conns) : \E b \in PushedBatches : PushDeviceUpdated(c, b)
  \/ \E c \in 1..Len(conns) : \E e \in PushedEntities : PushUserUpdated(c, e)
  \/ \E c \in 1..Len(conns) : \E i \in PushedDeletes : PushUserDeleted(c, i)

\* the stores composed with the fetchers, the API client and the manager
Next ==
  \/ \E s \in Stores : Load(s)
  \/ \E l \in loads : \E o \in PullOutcomes : PullDone(l, o)
  \/ \E s \in Stores : Cleanup(s)
  \/ Manager
  \/ Pushes

Spec == Init /\ [][Next]_vars

\* a store under test as in the store tests: one store per run, a test double
\* standing in for the fetcher
MockResults ==
  {Ok(<<Ent("A", 1)>>), Err("AbortError", "Aborted"),
   Err("Error", "Network error")}

\* s is the store of this run: no other store has been used
UnderTest(s) ==
  \A t \in Stores \ {s} : nLoads[t] = 0 /\ nCleanups[t] = 0

NextUnit ==
  \/ \E s \in Stores : UnderTest(s) /\ Load(s)
  \/ \E l \in loads : \E r \in MockResults : PullDoneMock(l, r)
  \/ \E s \in Stores : UnderTest(s) /\ Cleanup(s)
  \/ Manager

SpecUnit == Init /\ [][NextUnit]_vars

\* one store per run, composed with its fetcher, the API client and the
\* manager
NextOne ==
  \/ \E s \in Stores : UnderTest(s) /\ Load(s)
  \/ \E l \in loads : \E o \in PullOutcomes : PullDone(l, o)
  \/ \E s \in Stores : UnderTest(s) /\ Cleanup(s)
  \/ Manager

SpecOne == Init /\ [][NextOne]_vars

\* one store per run on which only load() is called, in any interleaving
\* with the continuations of earlier calls
NextLoads ==
  \/ \E s \in Stores : UnderTest(s) /\ Load(s)
  \/ \E l \in loads : \E o \in PullOutcomes : PullDone(l, o)
  \/ \E l \in loads : \E n \in NegotiateOutcomes : NegotiateDone(l, n)
  \/ \E l \in loads : \E ok \in BOOLEAN : StartDone(l, ok)

SpecLoads == Init /\ [][NextLoads]_vars

\* the same with the timers of the code: the API client ends every request
\* within DEFAULT_TIMEOUT and connectSignalR aborts the negotiate fetch after
\* 5 s, so a suspended pull and a suspended negotiation always resume.
\* connection.start() and connection.stop() are awaited without a timer.
DEFAULT_TIMEOUT == 10000

PullSettles == \E l \in loads : \E o \in PullOutcomes : PullDone(l, o)
NegotiateSettles ==
  \E l \in loads : \E n \in NegotiateOutcomes : NegotiateDone(l, n)

SpecLive ==
  /\ Init /\ [][NextOne]_vars
  /\ WF_vars(PullSettles)
  /\ WF_vars(NegotiateSettles)

\* the runtime's clock advances by one second; a timer that is due fires
\* before the clock passes it
Tick ==
  /\ now + 1000 <= MaxTicks * 1000
  /\ \A t \in timers : t.at >= now + 1000
  /\ now' = now + 1000
  /\ last' = Op("tick", "", 0, "")
  /\ UNCHANGED <<storeVars, loads, nLoads, nCleanups, managerVars, writeVars,
                 toastVars, timers, cleaned>>

\* the abort timer of the negotiate fetch of l
AbortTimer(l) ==
  {t \in timers : t.kind = "negotiate" /\ t.s = l.s /\ t.id = l.c}

\* the negotiate fetch of l settles by itself, before its abort timer is due
NegotiateAnswered(l, n) ==
  /\ n.net # "abort"
  /\ \A t \in AbortTimer(l) : now < t.at
  /\ NegotiateDone(l, n)

\* the abort timer of the negotiate fetch of l fires: controller.abort()
\* rejects the fetch with an AbortError
NegotiateTimedOut(l) ==
  /\ \E t \in AbortTimer(l) : t.at <= now
  /\ NegotiateDone(l, Rejected("abort"))

\* one store per run with the clock and the abort timer of the negotiation
NextTimed ==
  \/ \E s \in Stores : UnderTest(s) /\ Load(s)
  \/ \E l \in loads : \E o \in PullOutcomes : PullDone(l, o)
  \/ \E l \in loads : \E n \in NegotiateOutcomes : NegotiateAnswered(l, n)
  \/ \E l \in loads : NegotiateTimedOut(l)
  \/ \E l \in loads : \E ok \in BOOLEAN : StartDone(l, ok)
  \/ Tick

SpecTimed == Init /\ [][NextTimed]_vars

\* the fetchers and the write API on their own: calls whose requests end
\* with any outcome of the transport
ApiOperations ==
  {"fetchDevices", "fetchUsers", "createUser", "updateUser", "deleteUser"}

ApiOutcomes ==
  {Response(200, <<Ent("A", 1)>>), Response(404, <<>>), Response(409, <<>>),
   Response(500, <<>>), Response(503, <<>>), NoResponse("ECONNABORTED"),
   NoResponse("ERR_NETWORK")}

Api(operation, o) ==
  IF operation = "fetchDevices" THEN fetchDevices(o)
  ELSE IF operation = "fetchUsers" THEN fetchUsers(o)
  ELSE IF operation = "createUser" THEN createUser(o)
  ELSE IF operation = "updateUser" THEN updateUser(o)
  ELSE deleteUser(o)

\* a call of operation whose request ends with o; last keeps the call (k,
\* ents, de, msg) and the call before it (s, before, id)
ApiCall(operation, o) ==
  /\ last' = [Op("api", last.k, 0, operation)
                EXCEPT !.ents = <<o>>,
                       !.de = IF IsSuccess(o) THEN "" ELSE domainError(o),
                       !.msg = Api(operation, o).message,
                       !.before = last.ents, !.id = last.msg]
  /\ UNCHANGED <<storeVars, loads, nLoads, nCleanups, managerVars, writeVars,
                 toastVars, timers, now, cleaned>>

NextApi == \E operation \in ApiOperations : \E o \in ApiOutcomes :
             ApiCall(operation, o)

SpecApi == Init /\ [][NextApi]_vars

\* ------------------------------------------------------------ toast store
\* a Toast; message is left out, shown is history: the clock time at which
\* it was created
Toast(id, type, duration) ==
  [id |-> id, type |-> type, duration |-> duration, shown |-> now]

ToastIds(ts) == {ts[i].id : i \in 1..Len(ts)}

\* faulty variant of AllocateId: the id is the length of the list
AllocateIdFromLength(n, ts) == Len(ts)

\* `const id = nextId++`: the id given to a new toast when nextId is n and
\* the list is ts
AllocateId(n, ts) == n

\* createToast(message, type, duration)
createToast(type, duration, arg) ==
  /\ nextId < MaxToasts
  /\ LET id == AllocateId(nextId, toasts)
     IN /\ nextId' = nextId + 1
        /\ toasts' = Append(toasts, Toast(id, type, duration))
        /\ timers' = timers \cup {Timer("toast", "toast", id, now + duration)}
        /\ timeoutMap' = timeoutMap \cup {id}
        /\ last' = [Op("show", "toast", id, type)
                      EXCEPT !.ents = arg, !.before = toasts]
  /\ UNCHANGED <<storeVars, loads, nLoads, nCleanups, managerVars, writeVars,
                 disposed, disposedIds, now, cleaned>>

\* the duration argument of a call: <<>> when it is left out
DurationArgs == {<<>>, <<1000>>}

\* showSuccess(message, duration = 3000)
showSuccessDuration(arg) == IF arg = <<>> THEN 3000 ELSE arg[1]

ShowSuccess(arg) == createToast("success", showSuccessDuration(arg), arg)

\* faulty variant of showErrorDuration: the default of showSuccess
showErrorDurationAsSuccess(arg) == IF arg = <<>> THEN 3000 ELSE arg[1]

\* showError(message, duration = 5000)
showErrorDuration(arg) == IF arg = <<>> THEN 5000 ELSE arg[1]

ShowError(arg) == createToast("error", showErrorDuration(arg), arg)

\* faulty variant of CancelTimer: the timer is left pending
CancelTimerSkipped(ts, tm, id) == ts

\* dismissToast(id), its first lines: the timers after
\* `if (timeoutId !== undefined) clearTimeout(timeoutId)`
CancelTimer(ts, tm, id) ==
  IF id \in tm THEN ClearTimeout(ts, "toast", "toast", id) ELSE ts

\* faulty variant of RemoveToast: the list is left as it is
RemoveToastNever(ts, id) == ts

\* faulty variant of RemoveToast: splice at findIndex, which is -1 for an
\* id that is not in the list
RemoveToastSplice(ts, id) ==
  IF id \in ToastIds(ts) THEN SelectSeq(ts, LAMBDA t : t.id # id)
  ELSE SubSeq(ts, 1, Len(ts) - 1)

\* toasts.value.filter(t => t.id !== id)
RemoveToast(ts, id) == SelectSeq(ts, LAMBDA t : t.id # id)

\* dismissToast(id) when the pending timers are ts
dismissToast(ts, id) ==
  /\ timers' = CancelTimer(ts, timeoutMap, id)
  /\ timeoutMap' = timeoutMap \ {id}
  /\ toasts' = RemoveToast(toasts, id)
  /\ UNCHANGED <<storeVars, loads, nLoads, nCleanups, managerVars, writeVars,
                 nextId, disposed, disposedIds, now, cleaned>>

\* dismissToast(id) called by the user interface
DismissToast(id) ==
  /\ dismissToast(timers, id)
  /\ last' = [Op("dismiss", "toast", id,
                   IF id \in ToastIds(toasts) THEN "present" ELSE "absent")
                EXCEPT !.before = toasts]

\* the auto-dismiss timer t is due: the runtime takes it off its queue and
\* runs its callback, () => dismissToast(id)
Expire(t) ==
  /\ t \in timers /\ t.kind = "toast" /\ t.at <= now
  /\ dismissToast(timers \ {t}, t.id)
  /\ last' = [Op("expire", "toast", t.id, "") EXCEPT !.before = toasts]

\* faulty variant of DisposeTimers: the timers are left pending
DisposeTimersKept(ts, tm) == ts

\* onScopeDispose: timeoutMap.forEach(timeoutId => clearTimeout(timeoutId))
DisposeTimers(ts, tm) == {t \in ts : ~(t.kind = "toast" /\ t.id \in tm)}

\* the scope of the store is disposed: the onScopeDispose callback runs
Dispose ==
  /\ ~disposed
  /\ timers' = DisposeTimers(timers, timeoutMap)
  /\ timeoutMap' = {}
  /\ toasts' = <<>>
  /\ disposed' = TRUE
  /\ disposedIds' = 0..(nextId - 1)
  /\ last' = [Op("dispose", "toast", 0, "") EXCEPT !.before = toasts]
  /\ UNCHANGED <<storeVars, loads, nLoads, nCleanups, managerVars, writeVars,
                 nextId, now, cleaned>>

\* the toast store with the clock
NextToast ==
  \/ \E arg \in DurationArgs : ShowSuccess(arg)
  \/ \E arg \in DurationArgs : ShowError(arg)
  \/ \E id \in 0..MaxToasts : DismissToast(id)
  \/ \E t \in timers : Expire(t)
  \/ Dispose
  \/ Tick

SpecToast == Init /\ [][NextToast]_vars


\* the push-event handlers on their own: one store has loaded a snapshot and
\* subscribed on a connected transport, then events arrive
UniqueIds(xs) ==
  \A i, j \in 1..Len(xs) : i # j => xs[i].id # xs[j].id

Collections ==
  {xs \in UNION {[1..n -> Entity] : n \in 0..MaxLen} : UniqueIds(xs)}

Batches == UNION {[1..n -> Entity] : n \in 1..MaxBatch}

InitMerge ==
  \E s \in Stores :
    /\ collection \in {[t \in Stores |-> IF t = s THEN xs ELSE <<>>] :
                          xs \in Collections}
    /\ loading = [t \in Stores |-> FALSE]
    /\ error = [t \in Stores |-> NoError]
    /\ abortController = [t \in Stores |-> NoController]
    /\ signalRInitialized = [t \in Stores |-> t = s]
    /\ signalRInitializing = [t \in Stores |-> FALSE]
    /\ unregister = [t \in Stores |->
                       [u \in TopicsOf(t) |->
                          IF t = s THEN OffDisposer(1) ELSE NullDisposer]]
    /\ loads = {}
    /\ nLoads = [t \in Stores |-> IF t = s THEN 1 ELSE 0]
    /\ nCleanups = [t \in Stores |-> 0]
    /\ connection = 1
    /\ conns = <<[HubConnection(s, 1) EXCEPT
                    !.st = "connected",
                    !.handlers = {Handler(u, s, 1) : u \in TopicsOf(s)}]>>
    /\ disconnects = {}
    /\ writes = {}
    /\ nWrites = 0
    /\ cleaned = [t \in Stores |-> FALSE]
    /\ InitToastStore
    /\ timers = {}
    /\ now = 0
    /\ last = Op("start", s, 1, "ok")

NextMerge ==
  \/ \E c \in 1..Len(conns) : \E b \in Batches : PushDeviceUpdated(c, b)
  \/ \E c \in 1..Len(conns) : \E e \in Entity : PushUserUpdated(c, e)
  \/ \E c \in 1..Len(conns) : \E i \in Ids : PushUserDeleted(c, i)

SpecMerge == InitMerge /\ [][NextMerge]_vars

\* the users store after loadUsers() has loaded a snapshot and subscribed:
\* its write operations, reloads and the events of its topics
WrittenUsers == {<<Ent("A", 2)>>, <<>>}
WriteOutcomes ==
  {Response(200, d) : d \in WrittenUsers} \cup
  {Response(404, <<>>), Response(409, <<>>), Response(503, <<>>),
   NoResponse("ECONNABORTED")}

InitWrites ==
  /\ InitMerge
  /\ collection = [devices |-> <<>>, users |-> <<Ent("A", 1)>>]
  /\ signalRInitialized["users"]

NextWrites ==
  \/ Load("users")
  \/ \E l \in loads : \E o \in PullOutcomes : PullDone(l, o)
  \/ \E kind \in WriteKinds : Write(kind)
  \/ \E w \in writes : \E o \in WriteOutcomes : WriteDone(w, o)
  \/ \E c \in 1..Len(conns) : \E e \in PushedEntities : PushUserUpdated(c, e)
  \/ \E c \in 1..Len(conns) : \E i \in PushedDeletes : PushUserDeleted(c, i)

SpecWrites == InitWrites /\ [][NextWrites]_vars

\* the connection of a subscribed store: transport drops and the reconnect
\* attempts of withAutomaticReconnect()
InitReconnect ==
  /\ InitMerge
  /\ \E s \in Stores :
       collection = [t \in Stores |-> IF t = s THEN <<Ent("A", 1)>> ELSE <<>>]

NextReconnect ==
  \/ \E c \in 1..Len(conns) : Drop(c)
  \/ \E c \in 1..Len(conns) :
       \E a \in RenewalOutcomes(conns[c].lastGood + 1) : \E ok \in BOOLEAN :
         Reconnect(c, a, ok)

SpecReconnect == InitReconnect /\ [][NextReconnect]_vars

\* ------------------------------------------------- properties
Other(s) == IF s = "devices" THEN "users" ELSE "devices"

LoadsOf(s) == {l \in loads : l.s = s}

\* the load() that the step into the primed state resumed
Resumed == {l \in loads : l.s = last'.s /\ l.c = last'.c}

\* C1: a pull superseded by a later load() (its token aborted, another
\* session tracked) never writes its result to the Collection, also when it
\* resolves successfully after the abort.
C1_SupersededPullNeverWrites ==
  [][\A l \in Resumed :
       (last'.op = "pull" /\ l.aborted /\ abortController[l.s] # l.c
          /\ abortController[l.s] # NoController)
       => collection' = collection]_vars

\* C2: in the composition of store, fetcher and API client, the settling of
\* an aborted pull never turns a null error into a message.
C2_AbortedPullNeverSetsError ==
  [][\A l \in Resumed :
       (last'.op = "pull" /\ l.aborted /\ error[l.s] = NoError)
       => error'[l.s] = NoError]_vars

\* C3: at most one transport is built and open (starting or connected) at
\* any time, whatever the interleaving of connectSignalR() calls.
OpenConns == {c \in 1..Len(conns) : conns[c].st \in {"starting", "connected"}}

C3_AtMostOneTransport == Cardinality(OpenConns) <= 1

\* C4: after cleanup() of a store, once every suspended continuation has run
\* (no load() of the store and no disconnect is pending, no load() was called
\* since), no handler of the store is registered on a connection that is not
\* stopped and no connection opened for the store is open.
Quiescent(s) == LoadsOf(s) = {} /\ disconnects = {}

HandlersOf(s) ==
  {h \in UNION {conns[c].handlers : c \in {d \in 1..Len(conns) :
                                             conns[d].st # "stopped"}} :
     h.s = s}

C4_CleanupLeavesNothingBehind ==
  \A s \in Stores :
    (cleaned[s] /\ Quiescent(s))
    => /\ HandlersOf(s) = {}
       /\ ~\E c \in OpenConns : conns[c].owner = s

\* C5: with both stores subscribed on a connected transport, cleanup() of one
\* store leaves the other store's handlers attached to a connected transport.
Subscribed(s) ==
  \E c \in 1..Len(conns) :
    /\ conns[c].st = "connected"
    /\ \A t \in TopicsOf(s) : \E h \in conns[c].handlers : h.topic = t /\ h.s = s

C5_CleanupSparesOtherStore ==
  [][\A s \in Stores :
       (last'.op = "cleanup" /\ last'.s = s /\ Subscribed(s)
          /\ Subscribed(Other(s)))
       => Subscribed(Other(s))']_vars

\* C6: per store, at most one pull with an unaborted token is in flight, and
\* it is the one of the tracked controller; right after load() every other
\* call of that store still suspended has an aborted token.
LivePulls(s) == {l \in LoadsOf(s) : l.pc = "pull" /\ ~l.aborted}

C6_AtMostOneLivePull ==
  \A s \in Stores :
    /\ Cardinality(LivePulls(s)) <= 1
    /\ \A l \in LivePulls(s) : abortController[s] = l.c
    /\ (last.op = "load" /\ last.s = s)
         => \A l \in LoadsOf(s) : l.c # last.c => l.aborted

C6_Witness ==
  \E l1, l2 \in loads :
    /\ l1.s = l2.s /\ l1.pc = "pull" /\ l2.pc = "pull"
    /\ l1.aborted /\ ~l2.aborted
    /\ last.op = "load" /\ last.s = l2.s /\ last.c = l2.c

\* C7: after any sequence of push update and delete events applied to a
\* collection with pairwise distinct ids, no two entries share an id.
C7_IdsStayUnique == \A s \in Stores : UniqueIds(collection[s])

\* a batch naming the same new id twice has been merged
C7_Witness ==
  /\ last.op = "push" /\ last.k = "deviceUpdated"
  /\ Len(last.ents) = 2 /\ last.ents[1].id = last.ents[2].id
  /\ FindIndex(last.before, last.ents[1].id) = 0
  /\ Len(last.before) = 2

\* C8: a push update for e replaces the entry with e's id at its position
\* and leaves every other entry and the order alone; without such an entry
\* e is appended at the end.  (A deviceUpdated batch is its entities applied
\* one after the other.)
Updated(C, e) ==
  IF \E k \in 1..Len(C) : C[k].id = e.id
    THEN [k \in 1..Len(C) |-> IF C[k].id = e.id THEN e ELSE C[k]]
    ELSE C \o <<e>>

RECURSIVE UpdatedAll(_, _)
UpdatedAll(C, es) ==
  IF es = <<>> THEN C ELSE UpdatedAll(Updated(C, Head(es)), Tail(es))

C8_UpdateReplacesInPlaceOrAppends ==
  (last.op = "push" /\ last.k \in {"userUpdated", "deviceUpdated"})
  => collection[last.s] = UpdatedAll(last.before, last.ents)

\* an entry in the middle of three has been replaced
C8_Witness ==
  /\ last.op = "push" /\ last.k = "userUpdated"
  /\ Len(last.before) = 3
  /\ last.before[2].id = last.ents[1].id
  /\ last.before[2] # last.ents[1]
  /\ collection["users"][2] = last.ents[1]

\* C9: a push delete for id x removes the entry with id x and keeps the
\* others in their order; without such an entry the collection is unchanged.
C9_DeleteRemovesExactlyTheEntry ==
  (last.op = "push" /\ last.k = "userDeleted")
  => LET C == last.before
         R == collection["users"]
     IN IF \E k \in 1..Len(C) : C[k].id = last.id
          THEN \E k \in 1..Len(C) :
                 /\ C[k].id = last.id
                 /\ R = SubSeq(C, 1, k - 1) \o SubSeq(C, k + 1, Len(C))
          ELSE R = C

\* the second of three entries has been deleted
C9_Witness ==
  /\ last.op = "push" /\ last.k = "userDeleted"
  /\ Len(last.before) = 3
  /\ last.before[2].id = last.id
  /\ Len(collection["users"]) = 2

\* C10: when the pull of the current load() fails with an AbortError, load()
\* returns without touching error or the Collection, and loading is false.
C10_AbortErrorIsSilent ==
  [][\A l \in Resumed :
       (last'.op = "pull" /\ last'.k = "AbortError"
          /\ abortController[l.s] = l.c)
       => /\ error' = error
          /\ collection' = collection
          /\ loading'[l.s] = FALSE]_vars

\* a reload of a loaded store was answered with an AbortError
C10_Witness ==
  /\ last.op = "pull" /\ last.k = "AbortError"
  /\ nCleanups[last.s] = 0
  /\ abortController[last.s] = NoController
  /\ LoadsOf(last.s) = {}
  /\ collection[last.s] # <<>>
  /\ error[last.s] = NoError
  /\ ~loading[last.s]

\* the step into the primed state ended the load() l
Ended(l) == ~\E m \in loads' : m.s = l.s /\ m.c = l.c

\* C11: when the read endpoint answers 404, load() replaces the Collection
\* with the empty list and does not touch error; if load() ends there,
\* loading is false.
C11_NotFoundYieldsEmpty ==
  [][\A l \in Resumed :
       (last'.op = "pull" /\ last'.de = "NotFound")
       => /\ collection'[l.s] = <<>>
          /\ error' = error
          /\ Ended(l) => ~loading'[l.s]]_vars

\* a reload of a loaded store was answered 404
C11_Witness ==
  /\ last.op = "pull" /\ last.de = "NotFound"
  /\ last.before # <<>>
  /\ collection[last.s] = <<>>
  /\ error[last.s] = NoError
  /\ ~loading[last.s]
  /\ LoadsOf(last.s) = {}

\* C12: load() whose pull fails with a failure other than a cancellation
\* changes the Collection neither when it is called nor when the failure
\* arrives; error becomes the failure's message and loading false.
C12_FailedPullKeepsCollection ==
  [][/\ last'.op = "load" => collection' = collection
     /\ \A l \in Resumed :
          (last'.op = "pull" /\ last'.k = "Error" /\ ~l.aborted)
          => /\ collection' = collection
             /\ error'[l.s] = last'.msg
             /\ error'[l.s] # NoError
             /\ ~loading'[l.s]
             /\ Ended(l)]_vars

\* a reload of a loaded store failed with 503
C12_Witness ==
  /\ last.op = "pull" /\ last.k = "Error" /\ last.de = "ServiceUnavailable"
  /\ collection[last.s] # <<>>
  /\ collection[last.s] = last.before
  /\ error[last.s] = last.msg
  /\ ~loading[last.s]
  /\ nCleanups[last.s] = 0

\* C13: cleanup() can be called in every state; it leaves the Collection
\* empty, loading false, error null, no tracked controller and no disposer;
\* called again right away it changes nothing.
Budget == nCleanups["devices"] + nCleanups["users"] < MaxCleanups

C13_CleanupIdempotentAndTotal ==
  [][/\ \A s \in Stores : (Budget /\ UnderTest(s)) => ENABLED Cleanup(s)
     /\ \A s \in Stores :
          (last'.op = "cleanup" /\ last'.s = s)
          => /\ collection'[s] = <<>>
             /\ ~loading'[s]
             /\ error'[s] = NoError
             /\ abortController'[s] = NoController
             /\ \A t \in TopicsOf(s) : unregister'[s][t] = NullDisposer
     /\ (last'.op = "cleanup" /\ last'.k = "again")
          => UNCHANGED <<storeVars, loads, managerVars>>]_vars

\* cleanup() was called twice in a row on a store that had been loaded and
\* subscribed
C13_Witness ==
  /\ last.op = "cleanup" /\ last.k = "again"
  /\ nLoads[last.s] > 0
  /\ \E c \in 1..Len(conns) : conns[c].owner = last.s

\* C14: no step of addUser, modifyUser or removeUser changes the Collection,
\* whether the write succeeds or fails; the Collection of the users store
\* changes only when a pull of load() settles or a push event is delivered.
C14_WritesNeverTouchCollection ==
  [][/\ last'.op \in {"write", "writeDone"} => collection' = collection
     /\ collection' # collection => last'.op \in {"pull", "push"}]_vars

\* a write succeeded on a loaded and subscribed store, and its event, not
\* yet delivered, would change the Collection
C14_Witness ==
  /\ last.op = "writeDone" /\ last.k = "returned"
  /\ collection["users"] = <<Ent("A", 1)>>
  /\ Subscribed("users")
  /\ userUpdatedHandler(collection["users"], Ent("A", 2)) # collection["users"]

\* C15: when the API call of a write operation fails, the operation sets
\* error to the failure's message, throws to its caller, leaves the
\* Collection alone and sets loading to false.
C15_FailedWriteSurfacesError ==
  [][(last'.op = "writeDone" /\ last'.msg # "")
       => /\ error'["users"] = last'.msg
          /\ last'.k = "threw"
          /\ collection' = collection
          /\ ~loading'["users"]]_vars

\* addUser failed with 503 on a loaded store
C15_Witness ==
  /\ last.op = "writeDone" /\ last.k = "threw"
  /\ last.de = "ServiceUnavailable"
  /\ error["users"] = "users: service unavailable, retry later"
  /\ collection["users"] # <<>>
  /\ ~loading["users"]

\* C16: when connectSignalR() fails during load() (negotiation or start),
\* load() ends there without touching the Collection or error, and if it is
\* the tracked call it leaves loading false and no tracked controller.
C16_ChannelFailureIsSwallowed ==
  [][\A l \in Resumed :
       (last'.op \in {"negotiate", "start"} /\ last'.k = "error")
       => /\ collection' = collection
          /\ error' = error
          /\ Ended(l)
          /\ abortController[l.s] = l.c
               => ~loading'[l.s] /\ abortController'[l.s] = NoController]_vars

\* the first load() of a store fetched a snapshot and the negotiation failed
C16_Witness ==
  /\ last.op = "negotiate" /\ last.k = "error"
  /\ nLoads[last.s] = 1 /\ nCleanups[last.s] = 0
  /\ collection[last.s] # <<>>
  /\ error[last.s] = NoError
  /\ ~loading[last.s]
  /\ LoadsOf(last.s) = {}

\* C17: whenever loading is true it eventually becomes false, given only
\* that pulls and negotiations end within their timeouts.
C17_LoadingEventuallyFalse ==
  \A s \in Stores : loading[s] ~> ~loading[s]

\* C18: on every reconnect attempt the credential used is the one the
\* renewal call of that attempt delivered (never seen before); when that
\* call delivered none it is a credential obtained earlier.
C18_ReconnectUsesFreshCredential ==
  [][\A c \in 1..Len(conns) :
       (last'.op = "reconnect" /\ last'.c = c)
       => IF last'.k = "renewed"
            THEN conns'[c].credential = conns[c].lastGood + 1
            ELSE conns'[c].credential \in 1..conns[c].lastGood]_vars

\* a second reconnect attempt renewed the credential again
C18_Witness ==
  /\ last.op = "reconnect" /\ last.k = "renewed"
  /\ conns[last.c].attempts = 2
  /\ conns[last.c].credential = 3
  /\ conns[last.c].accessToken = 1

\* C19: when the renewal call of a reconnect attempt fails, the credential
\* used is the most recent one a negotiation delivered (the initial one or
\* the one of the latest successful renewal).
C19_FallbackIsLastKnownGood ==
  [][\A c \in 1..Len(conns) :
       (last'.op = "reconnect" /\ last'.c = c /\ last'.k # "renewed")
       => conns'[c].credential = conns[c].lastGood]_vars

\* C20: when the negotiation answers 2xx with a body that is no object, or
\* without a non-empty string url, or without a non-empty string
\* accessToken, connectSignalR() throws, builds no connection and leaves the
\* handle null, so that the next connectSignalR() negotiates again.
Malformed(a) ==
  /\ a.net = "response" /\ a.ok
  /\ \/ ~a.isObject
     \/ a.url = NotAString \/ a.url = ""
     \/ a.accessToken <= 0

C20_MalformedNegotiationFails ==
  [][\A l \in Resumed :
       (last'.op = "negotiate" /\ Malformed(last'.ents[1]))
       => /\ last'.k = "error"
          /\ conns' = conns
          /\ connection' = NoConnection
          /\ Ended(l)]_vars

\* the negotiation of the first load() of a store answered without
\* accessToken: the snapshot is loaded, no connection exists, the handle is
\* null
C20_Witness ==
  /\ last.op = "negotiate" /\ last.k = "error"
  /\ Malformed(last.ents[1]) /\ last.ents[1].accessToken = 0
  /\ last.ents[1].url = HubUrl
  /\ conns = <<>> /\ connection = NoConnection
  /\ LoadsOf(last.s) = {}
  /\ collection[last.s] # <<>>

\* C28: when a push event is applied to the Collection while a reload's pull
\* is in flight, the pull's resolution replaces the whole Collection by its
\* snapshot: the pushed change is kept only if the snapshot has it, nothing is
\* merged and nothing is replayed afterwards.
C28_PullOverwritesPush ==
  [][\A l \in Resumed :
       (last'.op = "pull" /\ last'.k = "ok" /\ l.pushed)
       => /\ last'.pushed
          /\ collection'[l.s] = last'.ents
          /\ collection'[Other(l.s)] = collection[Other(l.s)]]_vars

\* a reload of the subscribed store resolved with a snapshot that has the
\* old version of A, after the push of A's new version had been applied during
\* the pull: the Collection holds the old version
C28_Witness ==
  /\ last.op = "pull" /\ last.k = "ok" /\ last.pushed
  /\ \E i \in 1..Len(last.before) : last.before[i] = Ent("A", 2)
  /\ \E i \in 1..Len(last.ents) : last.ents[i] = Ent("A", 1)
  /\ collection[last.s] = last.ents
  /\ \A i \in 1..Len(collection[last.s]) : collection[last.s][i] # Ent("A", 2)

\* the connection whose stop() completed in the step into the primed state
Stopped == disconnects \ disconnects'

\* C29: a connectSignalR() issued after disconnectSignalR() was called, also
\* while the stop is still pending, never resolves to the connection that is
\* being torn down, and the completion of a disconnect never clears a handle
\* that holds another connection than the one it stopped.
C29_ConnectAfterDisconnectIsFresh ==
  [][/\ last'.conn # NoConnection => last'.conn \notin disconnects
     /\ (last'.op = "stop" /\ connection \notin Stopped)
        => connection' = connection]_vars

\* the step into the primed state is one in which a connectSignalR() call
\* returned to its caller
ConnectResolved ==
  \/ last'.op = "start" /\ last'.k = "ok"
  \/ last'.op = "pull" /\ last'.conn # NoConnection

\* C30: every connectSignalR() call that resolves returns a non-null
\* connection whose start() has completed, also for a caller that arrives
\* while another caller's connect is negotiating or starting.
C30_ResolvedConnectIsConnected ==
  [][ConnectResolved
     => /\ last'.conn # NoConnection
        /\ conns'[last'.conn].st = "connected"]_vars

\* C22: while the connection handle is null, subscribing to a topic registers
\* nothing and returns a disposer whose invocation has no effect, and
\* disconnectSignalR() has no effect; none of these calls changes the manager's
\* state.
C22_NullHandleIsInert ==
  [][/\ connection = NoConnection
        => \A s \in Stores, c \in 1..MaxLoads :
             /\ Register(conns, s, c) = conns
             /\ RegisterDisposer(c) = NoopDisposer
             /\ StopCalled(conns) = conns
     /\ \A s \in Stores :
          (\A t \in TopicsOf(s) : unregister[s][t] = NoopDisposer)
          => InvokeDisposers(conns, s) = conns
     /\ (connection = NoConnection /\ last'.op = "cleanup")
        => UNCHANGED managerVars
     /\ \A l \in Resumed :
          (connection = NoConnection /\ last'.op = "start" /\ last'.k = "ok")
          => /\ conns' = [conns EXCEPT ![l.conn].st = "connected"]
             /\ connection' = NoConnection /\ disconnects' = disconnects
             /\ \A t \in TopicsOf(l.s) : unregister'[l.s][t] = NoopDisposer]_vars

\* a store subscribed while the handle was null (another caller's failed
\* negotiation had cleared it): it holds no-op disposers, none of its handlers
\* is registered, and its cleanup() then left the manager as it was
C22_Witness ==
  /\ last.op = "cleanup" /\ connection = NoConnection
  /\ \E i \in 1..Len(conns) :
       conns[i].st = "connected" /\ conns[i].handlers = {}
  /\ disconnects = {}

\* the messages connectSignalR() fails with when the endpoint answers non-2xx
Non2xxFailures ==
  {connectSignalRFailure(a) :
     a \in {b \in NegotiateOutcomes : b.net = "response" /\ ~b.ok}}

C23_IdsStrictlyIncrease ==
  [][/\ last.op = "init" => nextId = 0
     /\ nextId' >= nextId
     /\ \A i \in 1..Len(toasts) :
          /\ toasts[i].id < nextId
          /\ \A j \in 1..Len(toasts) : i < j => toasts[i].id < toasts[j].id
     /\ last'.op = "show"
        => /\ last'.c = nextId
           /\ nextId' = nextId + 1
           /\ toasts' = Append(toasts, toasts'[Len(toasts')])
           /\ toasts'[Len(toasts')].id = nextId
     /\ last'.op # "show" => nextId' = nextId]_vars

\* the third notification was created after the first two had gone (one
\* dismissed or expired, the list was empty): its id is 2
C23_Witness ==
  /\ last.op = "show" /\ last.before = <<>>
  /\ Len(toasts) = 1 /\ toasts[1].id = 2
  /\ nextId = 3 /\ ~disposed

\* the default time-to-live of a notification of that type
DefaultTtl(type) == IF type = "success" THEN 3000 ELSE 5000

\* the step into the primed state took the toast t off the list
Left(t) == t.id \notin ToastIds(toasts')

\* C24: a notification is created with the time-to-live d that was passed, or
\* by default 3000 (success) and 5000 (error); unless it is dismissed earlier
\* (or the store is disposed) it is in the list at every time before its
\* creation time plus d, it is removed when exactly d has elapsed, and it is
\* never in the list at a later time.
C24_ExpiresAfterTtl ==
  [][/\ last'.op = "show"
        => LET t == toasts'[Len(toasts')]
           IN /\ t.type = last'.k /\ t.shown = now
              /\ t.duration = IF last'.ents = <<>> THEN DefaultTtl(t.type)
                              ELSE last'.ents[1]
     /\ \A i \in 1..Len(toasts) :
          LET t == toasts[i]
          IN /\ Left(t)
                => \/ last'.op = "dismiss" /\ last'.c = t.id
                   \/ last'.op = "dispose"
                   \/ /\ last'.op = "expire" /\ last'.c = t.id
                      /\ now = t.shown + t.duration
             /\ ~Left(t) => now' <= t.shown + t.duration]_vars

\* an error notification created with the default time-to-live at second 1
\* has just expired at second 6, while a later one is still in the list
C24_Witness ==
  /\ last.op = "expire" /\ now = 6000
  /\ \E i \in 1..Len(last.before) :
       /\ last.before[i].id = last.c
       /\ last.before[i].type = "error"
       /\ last.before[i].duration = 5000
       /\ last.before[i].shown = 1000
  /\ last.c \notin ToastIds(toasts)
  /\ toasts # <<>>

\* C25: dismissToast(id) for a notification in the list, before its
\* time-to-live has elapsed, removes it at once and cancels its timer; the
\* other notifications and their timers stay, and no timer ever fires for a
\* notification that is not in the list.
C25_DismissCancelsTimer ==
  [][/\ (last'.op = "dismiss" /\ last'.c \in ToastIds(toasts))
        => /\ toasts' = SelectSeq(toasts, LAMBDA t : t.id # last'.c)
           /\ timers' = {t \in timers : t.id # last'.c}
           /\ timeoutMap' = timeoutMap \ {last'.c}
     /\ last'.op = "expire" => last'.c \in ToastIds(toasts)
     /\ \A t \in timers : t.kind = "toast" => t.id \in ToastIds(toasts)]_vars

\* the first notification was dismissed one second after its creation, two
\* seconds before its time-to-live: the second one and its timer remain
C25_Witness ==
  /\ last.op = "dismiss" /\ last.k = "present" /\ last.c = 0
  /\ now = 1000
  /\ \E i \in 1..Len(last.before) :
       /\ last.before[i].id = 0
       /\ last.before[i].shown = 0 /\ last.before[i].duration = 3000
  /\ ToastIds(toasts) = {1}
  /\ {t.id : t \in timers} = {1}

\* C26: dismissToast(id) for an id that is not in the list (never issued,
\* already dismissed, already expired) changes neither the list nor the
\* pending timers; so dismissing twice is the same as dismissing once.
C26_DismissAbsentIsNoOp ==
  [][(last'.op = "dismiss" /\ last'.c \notin ToastIds(toasts))
     => /\ toasts' = toasts
        /\ timers' = timers
        /\ timeoutMap' = timeoutMap
        /\ nextId' = nextId]_vars

\* notification 0 was dismissed a second time while notification 1 and its
\* timer were pending: both are still there
C26_Witness ==
  /\ last.op = "dismiss" /\ last.k = "absent" /\ last.c = 0
  /\ nextId = 2 /\ ~disposed
  /\ ToastIds(toasts) = {1}
  /\ {t.id : t \in timers} = {1}
  /\ timeoutMap = {1}

\* C27: the disposal of the store cancels every pending timer and empties the
\* list, and no timer created before the disposal fires after it.
C27_DisposalCancelsTimers ==
  [][/\ last'.op = "dispose"
        => /\ toasts' = <<>>
           /\ timeoutMap' = {}
           /\ \A t \in timers' : t.kind # "toast"
     /\ \A t \in timers : t.kind = "toast" => t.id \notin disposedIds
     /\ last'.op = "expire" => last'.c \notin disposedIds]_vars

\* the store was disposed while two notifications were pending: the list is
\* empty and no timer is left
C27_Witness ==
  /\ last.op = "dispose" /\ Len(last.before) = 2
  /\ disposed /\ disposedIds = {0, 1}
  /\ toasts = <<>> /\ timers = {} /\ timeoutMap = {}

\* the handlers of store s for topic t registered on a connection that is
\* not stopped
HandlersFor(s, t) == {h \in HandlersOf(s) : h.topic = t}

\* at most one handler of s per topic is registered, and s holds the disposer
\* of every handler of its own that is registered
OneHandlerHeld(s) ==
  \A t \in TopicsOf(s) :
    /\ Cardinality(HandlersFor(s, t)) <= 1
    /\ \A h \in HandlersFor(s, t) : unregister[s][t] = OffDisposer(h.cb)

\* C31: for any interleaving of loadDevices() calls on one devices store, at
\* most one deviceUpdated handler of the store is registered at any time, and
\* the store holds the disposer of every handler it registered.
C31_DevicesRegisterOnce == OneHandlerHeld("devices")

\* C32: for any interleaving of loadUsers() calls on one users store, at most
\* one userUpdated and at most one userDeleted handler of the store are
\* registered at any time, and the store holds the disposer of every handler
\* it registered.
C32_UsersRegisterOnce == OneHandlerHeld("users")

\* loadUsers() was called a second time while the first call was suspended in
\* the channel initialization; both have completed and the store is
\* subscribed with the handlers of the first call only
C32_Witness ==
  /\ nLoads["users"] = 2 /\ LoadsOf("users") = {}
  /\ last.op = "start" /\ last.k = "ok" /\ last.c = 1
  /\ signalRInitialized["users"]
  /\ \A t \in TopicsOf("users") :
       HandlersFor("users", t) = {Handler(t, "users", 1)}

\* the handlers whose disposers store s holds
Held(s) ==
  {Handler(t, s, unregister[s][t].cb) :
     t \in {u \in TopicsOf(s) : unregister[s][u].kind = "off"}}

\* C33: invoking the disposer a subscription returned detaches exactly the
\* handler it was created for, from the connection on which that handler was
\* registered, also when the shared handle has meanwhile been cleared or
\* replaced, and detaches no other handler.  (cleanup() invokes every
\* disposer the store holds; connections that are stopped are left out.)
C33_DisposerDetachesItsHandler ==
  [][last'.op = "cleanup"
     => \A c \in 1..Len(conns) :
          conns[c].st # "stopped"
          => conns'[c].handlers = conns[c].handlers \ Held(last'.s)]_vars

\* the load() l has been superseded: a later load() of its store is tracked
Superseded(l) == abortController[l.s] \notin {l.c, NoController}

\* C34: when a load() that has been superseded by a later load() completes,
\* by success, cancellation or failure, in its pull or in its channel
\* initialization, it changes neither the tracked session nor loading: both
\* keep the values of the superseding session, and loading stays true.
C34_SupersededKeepsBookkeeping ==
  [][\A l \in Resumed :
       (last'.op \in {"pull", "negotiate", "start"} /\ Superseded(l))
       => /\ abortController' = abortController
          /\ loading' = loading
          /\ Ended(l) => loading'[l.s]]_vars

\* the first load() of a store, superseded by the second, has just ended with
\* a failure that is not a cancellation: the second one is still tracked and
\* in its pull, and loading is true
C34_Witness ==
  /\ last.op = "pull" /\ last.k = "Error" /\ last.c = 1
  /\ abortController[last.s] = 2
  /\ loading[last.s]
  /\ \E l \in LoadsOf(last.s) : l.c = 2 /\ l.pc = "pull"

\* C35: a create request the write endpoint rejects with HTTP 409 is
\* classified as Conflict by the API client, and createUser / addUser fail
\* with the message for an id that exists already, not with the generic
\* registration failure message.
C35_ConflictHasItsOwnMessage ==
  [][(last'.op = "writeDone" /\ last'.id = "addUser"
        /\ last'.ents[1].status = 409)
     => /\ last'.de = "Conflict"
        /\ last'.k = "threw"
        /\ last'.msg = "users: a user with this id exists already"
        /\ error'["users"] = "users: a user with this id exists already"]_vars

\* the kind of the failure of a request of operation that ended with o
FailureKind(operation, o) ==
  IF IsSuccess(o) THEN "None"
  ELSE IF o.status = 404 THEN "NotFound"
  ELSE IF o.status = 503 THEN "ServiceUnavailable"
  ELSE IF o.status = 409 /\ operation = "createUser" THEN "Conflict"
  ELSE IF o.status # 0 THEN "Unknown"
  ELSE IF o.code = "ECONNABORTED" THEN "Timeout"
  ELSE IF o.code = "ERR_CANCELED" THEN "Cancelled"
  ELSE "NetworkError"

SurfacedKinds ==
  {"ServiceUnavailable", "Timeout", "Conflict", "NetworkError", "Unknown"}

\* C36: for each operation of the fetchers and the write API, two failures of
\* different kinds among ServiceUnavailable, Timeout, Conflict, NetworkError
\* and Unknown yield different messages, and two failures of the same kind
\* yield the same message.
C36_OneMessagePerKind ==
  (/\ last.op = "api" /\ last.before # <<>> /\ last.s = last.k
   /\ FailureKind(last.k, last.ents[1]) \in SurfacedKinds
   /\ FailureKind(last.k, last.before[1]) \in SurfacedKinds)
  => (FailureKind(last.k, last.ents[1]) = FailureKind(last.k, last.before[1])
      <=> last.msg = last.id)

\* C37: after cleanup() of a store and until its load() is called again (the
\* runs have no write operations), its Collection is empty, loading is false
\* and error is null, whatever continuation of an earlier operation runs and
\* whatever event is pushed.
C37_CleanedStoreStaysReset ==
  \A s \in Stores :
    cleaned[s] => /\ collection[s] = <<>>
                  /\ ~loading[s]
                  /\ error[s] = NoError

\* C38: in the devices store, loading is true if and only if a session is
\* tracked (abortController is not null); a step changes one exactly when it
\* changes the other.
C38_LoadingIffSessionTracked ==
  [][/\ loading["devices"] <=> abortController["devices"] # NoController
     /\ loading'["devices"] <=> abortController'["devices"] # NoController
     /\ loading'["devices"] # loading["devices"]
        => last'.op \in {"load", "pull", "negotiate", "start", "cleanup"}]_vars

\* the second loadDevices() is tracked and in its pull after the first,
\* superseded one has ended with a successful channel initialization: loading
\* is still true
C38_Witness ==
  /\ last.op = "start" /\ last.k = "ok" /\ last.s = "devices" /\ last.c = 1
  /\ abortController["devices"] = 2
  /\ loading["devices"]
  /\ \E l \in LoadsOf("devices") : l.c = 2 /\ l.pc = "pull" /\ ~l.aborted

\* C39: in the users store, loading is true in every state in which a pull
\* started by loadUsers() is in flight and has been neither superseded nor
\* cleaned up, also when addUser, modifyUser or removeUser start or complete
\* during the pull.
C39_LoadingWhilePullInFlight ==
  \A l \in LoadsOf("users") :
    (l.pc = "pull" /\ ~l.aborted /\ abortController["users"] = l.c)
    => loading["users"]

\* the pending auto-dismiss timers
ToastTimers == {t \in timers : t.kind = "toast"}

\* C40: before the disposal of the toast store, the ids that have a pending
\* auto-dismiss timer are the ids in the list: each listed notification has
\* exactly one pending timer, recorded in timeoutMap, and no timer exists for
\* a notification that is not listed.
C40_TimersMatchList ==
  ~disposed
  => /\ {t.id : t \in ToastTimers} = ToastIds(toasts)
     /\ timeoutMap = ToastIds(toasts)
     /\ Cardinality(ToastTimers) = Len(toasts)
     /\ Cardinality(ToastIds(toasts)) = Len(toasts)

\* the first of three notifications is gone (expired or dismissed) and the
\* second has just been dismissed: the third is listed and has the only
\* pending timer
C40_Witness ==
  /\ ~disposed /\ nextId = 3
  /\ last.op = "dismiss" /\ last.k = "present" /\ last.c = 1
  /\ now >= 1000
  /\ ToastIds(toasts) = {2}
  /\ {t.id : t \in ToastTimers} = {2}
  /\ timeoutMap = {2}

====
